---- MODULE Spec2Model ----
(***************************************************************************)
(* brainstorming-viz/Untitled.ipynb, cell 0: a linear script that builds a *)
(* five-row ColumnDataSource, a HoverTool with an HTML tooltip template, a *)
(* figure with that tool, one circle renderer, and shows the figure into   *)
(* "toolbar.html".  The model follows the cell statement by statement; any *)
(* statement may raise, and nothing in the cell catches.  After show() the *)
(* written document is viewed: hovering a marker resolves the template.    *)
(***************************************************************************)
EXTENDS Integers, Sequences, FiniteSets, TLC

VARIABLES
    input,      \* the dict literal of lines 17-28 (columns x, y, desc, imgs)
    pc,         \* the statement about to run, or "done" / "error"
    ns,         \* the cell's namespace: bound name -> object
    outputFile, \* the library's configured output file ("" = none)
    written,    \* the files written by this run, in order, with their document
    view,       \* the viewer's hover state: <<>> or <<[index, marker, cursor, tooltip]>>
    failedAt,   \* the statement whose exception ended the run, or "none"
    trace,      \* the statements completed by this run, in order
    runs,       \* how many times the cell has been started
    log         \* the artifact request of every completed show(), over all runs

vars == <<input, pc, ns, outputFile, written, view, failedAt, trace, runs, log>>

\* ------------------------------------------------------------------ bounds

\* How many times the cell is run.
MaxRuns == 2

\* How far (in pixels, per axis) from a marker's centre the cursor is placed.
MaxOffset == 1

\* ------------------------------------------------------------ the literals

LiteralData ==
    [ x    |-> <<1, 2, 3, 4, 5>>,
      y    |-> <<2, 5, 8, 2, 7>>,
      desc |-> <<"A", "b", "C", "d", "E">>,
      imgs |-> << "http://bokeh.pydata.org/static/snake.jpg",
                  "http://bokeh.pydata.org/static/snake2.png",
                  "http://bokeh.pydata.org/static/snake3D.png",
                  "http://bokeh.pydata.org/static/snake4_TheRevenge.png",
                  "http://bokeh.pydata.org/static/snakebite.jpg" >> ]

Lit(s)     == [kind |-> "lit",     name |-> s]
Field(s)   == [kind |-> "field",   name |-> s]
Special(s) == [kind |-> "special", name |-> s]

\* Mutant: the label placeholder names a column the source does not have.
TooltipTemplateTypo ==
    << Lit("<div><div><img src="),
       Field("imgs"),
       Lit(" height=42 alt="),
       Field("imgs"),
       Lit(" width=42 style=... border=2></img></div><div><span>"),
       Field("label"),
       Lit("</span><span>["),
       Special("index"),
       Lit("]</span></div><div><span>Location</span><span>("),
       Special("x"),
       Lit(", "),
       Special("y"),
       Lit(")</span></div></div>") >>

\* The tooltips string of lines 32-50, cut at its placeholders.
TooltipTemplate ==
    << Lit("<div><div><img src="),
       Field("imgs"),
       Lit(" height=42 alt="),
       Field("imgs"),
       Lit(" width=42 style=... border=2></img></div><div><span>"),
       Field("desc"),
       Lit("</span><span>["),
       Special("index"),
       Lit("]</span></div><div><span>Location</span><span>("),
       Special("x"),
       Lit(", "),
       Special("y"),
       Lit(")</span></div></div>") >>

\* The cell's statements in written order.
Steps == <<"import", "output_file", "source", "hover", "figure", "circle", "show">>

\* ------------------------------------------------------- the library calls

\* from bokeh.plotting import ...; from bokeh.models import HoverTool
ImportedNames ==
    [ figure           |-> "bokeh.plotting.figure",
      output_file      |-> "bokeh.plotting.output_file",
      show             |-> "bokeh.plotting.show",
      ColumnDataSource |-> "bokeh.plotting.ColumnDataSource",
      HoverTool        |-> "bokeh.models.HoverTool" ]

\* Mutant: another file name is configured.
OutputFileNameOther == "Untitled.html"

\* output_file("toolbar.html")
OutputFileName == "toolbar.html"

\* Mutant: the y column loses its last value.
ColumnDataSourceShortY(d) ==
    [data |-> [d EXCEPT !.y = SubSeq(@, 1, Len(@) - 1)]]

\* ColumnDataSource(data=dict(...)): the columns are kept as given.
ColumnDataSource(d) == [data |-> d]

\* HoverTool(tooltips="""...""")
HoverTool(t) == [type |-> "HoverTool", tooltips |-> t]

\* Mutant: the given tools are added to a default tool instead of replacing it.
FigureWithDefaults(tools) ==
    [ plot_width  |-> 400,
      plot_height |-> 400,
      title       |-> "Mouse over the dots",
      tools       |-> <<[type |-> "PanTool", tooltips |-> << >>]>> \o tools,
      renderers   |-> << >> ]

\* figure(plot_width=400, plot_height=400, tools=[hover], title=...):
\* an explicit tools list replaces the defaults; no glyph renderer yet
\* (renderers holds what the script attaches, not the library's own axes).
Figure(tools) ==
    [ plot_width  |-> 400,
      plot_height |-> 400,
      title       |-> "Mouse over the dots",
      tools       |-> tools,
      renderers   |-> << >> ]

\* Mutant: the coordinate fields are bound the other way round.
CircleSwapped(xf, yf, src) ==
    [glyph |-> "Circle", x |-> yf, y |-> xf, size |-> 20, data_source |-> src]

\* p.circle('x', 'y', size=20, source=source): the renderer it adds.
Circle(xf, yf, src) ==
    [glyph |-> "Circle", x |-> xf, y |-> yf, size |-> 20, data_source |-> src]

\* A name binding (or several) in the cell's namespace.
Bind(env, r) ==
    [n \in DOMAIN env \cup DOMAIN r |-> IF n \in DOMAIN r THEN r[n] ELSE env[n]]

\* Mutant: the cell ends after the renderer is bound, without show(p).
NextPcNoShow(step) ==
    LET k == CHOOSE j \in 1..Len(Steps) : Steps[j] = step
    IN  IF k >= Len(Steps) - 1 THEN "done" ELSE Steps[k + 1]

\* The statement after `step` in the cell; "done" after the last.
NextPc(step) ==
    LET k == CHOOSE j \in 1..Len(Steps) : Steps[j] = step
    IN  IF k = Len(Steps) THEN "done" ELSE Steps[k + 1]

\* ------------------------------------------------------ view-time helpers

\* Mutant: every marker's tooltip reads the first row.
FieldValueFirstRow(data, name, i) ==
    IF name \in DOMAIN data THEN <<"v", data[name][1]>> ELSE <<"?", "???">>

\* The value a named-field placeholder @name shows for row i.
FieldValue(data, name, i) ==
    IF name \in DOMAIN data THEN <<"v", data[name][i]>> ELSE <<"?", "???">>

\* The value a special placeholder shows: $index is the row's 0-based position
\* in the data source, $x and $y are the cursor's data-space coordinates.
SpecialValue(name, i, cursor) ==
    CASE name = "index" -> <<"i", i - 1>>
      [] name = "x"     -> <<"c", cursor.x>>
      [] name = "y"     -> <<"c", cursor.y>>
      [] OTHER          -> <<"?", "???">>

Resolve(tok, data, i, cursor) ==
    [ kind |-> tok.kind,
      name |-> tok.name,
      val  |-> CASE tok.kind = "field"   -> FieldValue(data, tok.name, i)
                 [] tok.kind = "special" -> SpecialValue(tok.name, i, cursor)
                 [] OTHER                -> <<"s", tok.name>> ]

\* The tooltip shown for row i: the template with every placeholder resolved.
Tooltip(template, data, i, cursor) ==
    [k \in 1..Len(template) |-> Resolve(template[k], data, i, cursor)]

\* What show() asks the library to write: the file and the structure of the
\* document (per renderer: glyph, coordinate fields, fields and row count of
\* its data source; per tool: the named fields its template reads).
ArtifactRequest(file, doc) ==
    [ file      |-> file,
      renderers |-> [k \in 1..Len(doc.renderers) |->
                        LET r == doc.renderers[k] IN
                        [ glyph  |-> r.glyph,
                          x      |-> r.x,
                          y      |-> r.y,
                          fields |-> DOMAIN r.data_source.data,
                          rows   |-> {Len(r.data_source.data[f]) :
                                          f \in DOMAIN r.data_source.data} ]],
      tools     |-> [k \in 1..Len(doc.tools) |->
                        [ type   |-> doc.tools[k].type,
                          fields |-> {doc.tools[k].tooltips[j].name :
                                        j \in {j \in 1..Len(doc.tools[k].tooltips) :
                                                 doc.tools[k].tooltips[j].kind = "field"}} ]] ]

\* ------------------------------------------------------------- the script

\* Mutant: the exception is swallowed and the cell goes on.
RaiseCaught(step) ==
    /\ pc' = NextPc(step)
    /\ failedAt' = step
    /\ UNCHANGED <<input, ns, outputFile, written, view, trace, runs, log>>

\* An exception raised by `step`: nothing in the cell catches it.
Raise(step) ==
    /\ pc' = "error"
    /\ failedAt' = step
    /\ UNCHANGED <<input, ns, outputFile, written, view, trace, runs, log>>

\* `step` returned normally: control moves to the next statement.
Completed(step) ==
    /\ pc' = NextPc(step)
    /\ trace' = Append(trace, step)
    /\ UNCHANGED <<input, failedAt, runs>>

ImportStep ==
    /\ pc = "import"
    /\ \/ /\ ns' = Bind(ns, ImportedNames)
          /\ Completed("import")
          /\ UNCHANGED <<outputFile, written, view, log>>
       \/ Raise("import")

OutputFileStep ==
    /\ pc = "output_file"
    /\ \/ /\ outputFile' = OutputFileName
          /\ Completed("output_file")
          /\ UNCHANGED <<ns, written, view, log>>
       \/ Raise("output_file")

SourceStep ==
    /\ pc = "source"
    /\ \/ /\ ns' = Bind(ns, [source |-> ColumnDataSource(input)])
          /\ Completed("source")
          /\ UNCHANGED <<outputFile, written, view, log>>
       \/ Raise("source")

HoverStep ==
    /\ pc = "hover"
    /\ \/ /\ ns' = Bind(ns, [hover |-> HoverTool(TooltipTemplate)])
          /\ Completed("hover")
          /\ UNCHANGED <<outputFile, written, view, log>>
       \/ Raise("hover")

FigureStep ==
    /\ pc = "figure"
    /\ \/ /\ ns' = Bind(ns, [p |-> Figure(<<ns.hover>>)])
          /\ Completed("figure")
          /\ UNCHANGED <<outputFile, written, view, log>>
       \/ Raise("figure")

\* Mutant: binding the renderer also rewrites a column of the source.
CircleStepMutating ==
    /\ pc = "circle"
    /\ \/ /\ ns' = Bind(ns,
                  [ p      |-> [ns.p EXCEPT !.renderers =
                                  Append(@, Circle("x", "y", ns.source))],
                    source |-> [ns.source EXCEPT !.data.x =
                                  [k \in 1..Len(@) |-> @[Len(@) + 1 - k]]] ])
          /\ Completed("circle")
          /\ UNCHANGED <<outputFile, written, view, log>>
       \/ Raise("circle")

\* p.circle(...) appends one renderer to p and touches nothing else.
CircleStep ==
    /\ pc = "circle"
    /\ \/ /\ ns' = Bind(ns, [p |-> [ns.p EXCEPT !.renderers =
                                      Append(@, Circle("x", "y", ns.source))]])
          /\ Completed("circle")
          /\ UNCHANGED <<outputFile, written, view, log>>
       \/ Raise("circle")

\* Mutant: what earlier runs showed is written again with this run's figure.
ShowStepAccumulating ==
    /\ pc = "show"
    /\ \/ LET doc == [ns.p EXCEPT !.renderers =
                         [k \in 1..(Len(log) + 1) |-> ns.p.renderers[1]]]
          IN  /\ written' = Append(written, [file |-> outputFile, doc |-> doc])
              /\ log' = Append(log, ArtifactRequest(outputFile, doc))
              /\ Completed("show")
              /\ UNCHANGED <<ns, outputFile, view>>
       \/ Raise("show")

\* show(p): the document is written to the configured file (and opened).
ShowStep ==
    /\ pc = "show"
    /\ \/ /\ written' = Append(written, [file |-> outputFile, doc |-> ns.p])
          /\ log' = Append(log, ArtifactRequest(outputFile, ns.p))
          /\ Completed("show")
          /\ UNCHANGED <<ns, outputFile, view>>
       \/ Raise("show")

\* The cursor is moved over marker i of the written document: the hover tool
\* shows its template resolved against row i of the renderer's data source.
Hover(i, dx, dy) ==
    /\ pc = "done"
    /\ Len(written) > 0
    /\ LET doc  == written[Len(written)].doc
           r    == doc.renderers[1]
           data == r.data_source.data
           cur  == [x |-> <<data[r.x][i], dx>>, y |-> <<data[r.y][i], dy>>]
       IN  /\ Len(doc.renderers) > 0
           /\ Len(doc.tools) > 0
           /\ i \in 1..Len(data[r.x])
           /\ 4 * (dx * dx + dy * dy) <= r.size * r.size
           /\ view' = << [ index   |-> i,
                           marker  |-> <<data[r.x][i], data[r.y][i]>>,
                           cursor  |-> cur,
                           tooltip |-> Tooltip(doc.tools[1].tooltips, data, i, cur) ] >>
    /\ UNCHANGED <<input, pc, ns, outputFile, written, failedAt, trace, runs, log>>

\* The cell is run again in a fresh process: nothing of the last run is kept.
Restart ==
    /\ pc \in {"done", "error"}
    /\ runs < MaxRuns
    /\ runs' = runs + 1
    /\ pc' = Steps[1]
    /\ ns' = << >>
    /\ outputFile' = ""
    /\ written' = << >>
    /\ view' = << >>
    /\ failedAt' = "none"
    /\ trace' = << >>
    /\ UNCHANGED <<input, log>>

Offsets == (0 - MaxOffset)..MaxOffset

\* The rows of the data literal: one marker each.
NumRows == Len(LiteralData.x)

Next ==
    \/ ImportStep
    \/ OutputFileStep
    \/ SourceStep
    \/ HoverStep
    \/ FigureStep
    \/ CircleStep
    \/ ShowStep
    \/ \E i \in 1..NumRows, dx \in Offsets, dy \in Offsets : Hover(i, dx, dy)
    \/ Restart

InitRun ==
    /\ pc = Steps[1]
    /\ ns = << >>
    /\ outputFile = ""
    /\ written = << >>
    /\ view = << >>
    /\ failedAt = "none"
    /\ trace = << >>
    /\ runs = 1
    /\ log = << >>

Init == input = LiteralData /\ InitRun

Spec == Init /\ [][Next]_vars

\* The same script over the literal data with two rows swapped (i = j: as written).
SwapRows(d, i, j) ==
    [f \in DOMAIN d |->
        [k \in 1..Len(d[f]) |->
            IF k = i THEN d[f][j] ELSE IF k = j THEN d[f][i] ELSE d[f][k]]]

InitSwap ==
    /\ \E i \in 1..NumRows, j \in 1..NumRows : input = SwapRows(LiteralData, i, j)
    /\ InitRun

SpecSwap == InitSwap /\ [][Next]_vars

\* ------------------------------------------------------------- the claims

\* The rows as the notebook writes them (lines 18-26), row by row.
ExpectedRows ==
    << <<1, 2, "A", "http://bokeh.pydata.org/static/snake.jpg">>,
       <<2, 5, "b", "http://bokeh.pydata.org/static/snake2.png">>,
       <<3, 8, "C", "http://bokeh.pydata.org/static/snake3D.png">>,
       <<4, 2, "d", "http://bokeh.pydata.org/static/snake4_TheRevenge.png">>,
       <<5, 7, "E", "http://bokeh.pydata.org/static/snakebite.jpg">> >>

FieldNames == {"x", "y", "desc", "imgs"}

\* Every data source the run holds: the bound name, the renderers' of p, and
\* the renderers' of every written document.
DocSources(doc) == {doc.renderers[k].data_source : k \in 1..Len(doc.renderers)}

LiveSources ==
    (IF "source" \in DOMAIN ns THEN {ns.source} ELSE {})
    \cup (IF "p" \in DOMAIN ns THEN DocSources(ns.p) ELSE {})
    \cup UNION {DocSources(written[k].doc) : k \in 1..Len(written)}

\* C1: once the record set exists, and through every later step of the run,
\* its four field sequences x, y, desc and imgs all have length 5.
C1_EqualLengths ==
    \A s \in LiveSources :
        /\ DOMAIN s.data = FieldNames
        /\ \A f \in FieldNames : Len(s.data[f]) = 5

C1_Witness ==
    /\ pc = "done"
    /\ Len(written) = 1
    /\ ns.source \in LiveSources
    /\ Cardinality(LiveSources) = 1

RowAt(s, i) == <<s.data.x[i], s.data.y[i], s.data.desc[i], s.data.imgs[i]>>

FieldShown(tip, name) ==
    {tip[k].val : k \in {k \in 1..Len(tip) : tip[k].kind = "field" /\ tip[k].name = name}}

\* C2: at every index i in 1..5 the row of every data source of the run is the
\* literal tuple i, the marker drawn for i sits at (x[i], y[i]), and the
\* tooltip for i shows desc[i] and imgs[i]: no field is reordered against
\* another.
C2_RowAlignment ==
    /\ \A s \in LiveSources : \A i \in 1..5 : RowAt(s, i) = ExpectedRows[i]
    /\ Len(view) = 1 =>
          LET v == view[1] IN
          /\ v.marker = <<ExpectedRows[v.index][1], ExpectedRows[v.index][2]>>
          /\ FieldShown(v.tooltip, "desc") = {<<"v", ExpectedRows[v.index][3]>>}
          /\ FieldShown(v.tooltip, "imgs") = {<<"v", ExpectedRows[v.index][4]>>}

C2_Witness ==
    /\ Len(view) = 1
    /\ view[1].index = 4
    /\ view[1].marker = <<4, 2>>

\* C3: within a run, once the record set is bound no step changes it, and the
\* data every written document carries is the data the source was built from.
C3_NeverMutated ==
    /\ [][("source" \in DOMAIN ns /\ runs' = runs)
            => ("source" \in DOMAIN ns' /\ ns'.source = ns.source)]_vars
    /\ [](\A k \in 1..Len(written) :
            \A s \in DocSources(written[k].doc) : s.data = input)

C3_Witness ==
    /\ pc = "done"
    /\ Len(written) = 1
    /\ Len(view) = 1
    /\ ns.source.data = input

\* The literal row a drawn marker stands for, found by its x (x is a key of
\* the literal rows); 0 when no literal row has that x.
LiteralIndex(marker) ==
    IF \E k \in 1..5 : ExpectedRows[k][1] = marker[1]
    THEN CHOOSE k \in 1..5 : ExpectedRows[k][1] = marker[1]
    ELSE 0

IndexShown(tip) ==
    {tip[k].val : k \in {k \in 1..Len(tip) : tip[k].kind = "special" /\ tip[k].name = "index"}}

\* C4 (as amended): with any two rows swapped as whole tuples, the set of
\* rows rendered is the literal set, and the marker of each literal row sits
\* at that row's (x, y) and shows that row's desc and imgs; the [$index]
\* readout is the row's position in the swapped data.
C4_OrderIndependentFields ==
    /\ \A s \in LiveSources :
          {RowAt(s, i) : i \in 1..5} = {ExpectedRows[i] : i \in 1..5}
    /\ Len(view) = 1 =>
          LET v == view[1]
              m == LiteralIndex(v.marker)
          IN  /\ m \in 1..5
              /\ v.marker = <<ExpectedRows[m][1], ExpectedRows[m][2]>>
              /\ FieldShown(v.tooltip, "desc") = {<<"v", ExpectedRows[m][3]>>}
              /\ FieldShown(v.tooltip, "imgs") = {<<"v", ExpectedRows[m][4]>>}
              /\ IndexShown(v.tooltip) = {<<"i", v.index - 1>>}

C4_Witness ==
    /\ Len(view) = 1
    /\ view[1].index = 1
    /\ view[1].marker = <<4, 2>>
    /\ input # LiteralData

\* C4 (as claimed): with any two rows swapped as whole tuples, everything the
\* tooltip of a marker shows is what it shows for that marker with the rows
\* as written, the [$index] readout included.
C4_Original ==
    /\ C4_OrderIndependentFields
    /\ Len(view) = 1 =>
          IndexShown(view[1].tooltip) = {<<"i", LiteralIndex(view[1].marker) - 1>>}

C6_OneArtifact ==
    /\ Len(written) <= 1
    /\ \A k \in 1..Len(written) : written[k].file = "toolbar.html"
    /\ written # << >> => trace[Len(trace)] = "show"
    /\ pc = "done" => Len(written) = 1

C6_Witness ==
    /\ pc = "done"
    /\ Len(written) = 1
    /\ written[1].file = "toolbar.html"

IsPrefix(a, b) == Len(a) <= Len(b) /\ a = SubSeq(b, 1, Len(a))

Positions(seq, e) == {k \in 1..Len(seq) : seq[k] = e}

\* C7 (as amended): the statements run at most once each and in the written
\* order import, output_file, source, hover, figure, circle, show; a run is
\* done exactly when all seven have run, so show comes after circle while
\* output_file comes before the data is built; nothing runs after show.
C7_LinearFlow ==
    /\ [](/\ IsPrefix(trace, <<"import", "output_file", "source", "hover",
                               "figure", "circle", "show">>)
          /\ pc = "done" <=> Len(trace) = 7
          /\ pc \notin {"done", "error"} => pc = Steps[Len(trace) + 1])
    /\ [][(pc = "done" /\ runs' = runs) => (pc' = "done" /\ trace' = trace)]_vars

C7_Witness ==
    /\ pc = "done"
    /\ trace[2] = "output_file"
    /\ trace[6] = "circle"
    /\ trace[7] = "show"

\* C7 (as claimed): construct data, tooltip, figure, renderer, output run in
\* this order, and every output-related statement (output_file, show) comes
\* after the renderer is bound.
C7_Original ==
    /\ IsPrefix(SelectSeq(trace, LAMBDA e : e \notin {"import", "output_file"}),
                <<"source", "hover", "figure", "circle", "show">>)
    /\ \A k \in Positions(trace, "output_file") \cup Positions(trace, "show") :
          \E j \in Positions(trace, "circle") : j < k

StepIndex(step) == CHOOSE k \in 1..7 : Steps[k] = step

\* C8: a failed statement ends the run in error at that statement: the
\* statements before it and no others have completed, nothing was written,
\* and no later state of the run differs (no retry, no recovery).
C8_FailurePropagates ==
    /\ [](pc = "error" <=> failedAt # "none")
    /\ [](failedAt # "none" =>
            /\ trace = SubSeq(Steps, 1, StepIndex(failedAt) - 1)
            /\ written = << >>
            /\ view = << >>)
    /\ [][(failedAt # "none" /\ runs' = runs) => UNCHANGED vars]_vars

C8_Witness ==
    /\ pc = "error"
    /\ failedAt = "figure"
    /\ Len(trace) = 4

\* What the figure handed to show() must look like.
FigureAsClaimed(doc) ==
    /\ Len(doc.renderers) = 1
    /\ doc.renderers[1].glyph = "Circle"
    /\ doc.renderers[1].data_source = ns.source
    /\ doc.renderers[1].x = "x"
    /\ doc.renderers[1].y = "y"
    /\ {"x", "y"} \subseteq DOMAIN doc.renderers[1].data_source.data
    /\ Len(doc.tools) = 1
    /\ doc.tools[1] = ns.hover
    /\ doc.tools[1].type = "HoverTool"

\* C9: the figure given to show() has exactly one renderer, a Circle bound to
\* the record set with coordinate fields 'x' and 'y' that are columns of it,
\* and exactly one tool, the hover tool.
C9_OneRendererOneTool ==
    /\ pc = "show" => FigureAsClaimed(ns.p)
    /\ \A k \in 1..Len(written) : FigureAsClaimed(written[k].doc)

C9_Witness ==
    /\ pc = "done"
    /\ Len(written) = 1
    /\ Len(written[1].doc.renderers) = 1

\* C10: the named-field placeholders of the tooltip are @imgs and @desc, both
\* columns of the renderer's record set, and for every hovered row i each
\* shows that row's value of its column; none is left unresolved.
C10_PlaceholdersResolve ==
    /\ \A k \in 1..Len(written) :
          LET doc == written[k].doc IN
          \A t \in 1..Len(doc.tools) :
              LET names == {doc.tools[t].tooltips[j].name :
                              j \in {j \in 1..Len(doc.tools[t].tooltips) :
                                       doc.tools[t].tooltips[j].kind = "field"}}
              IN  /\ names = {"imgs", "desc"}
                  /\ \A r \in 1..Len(doc.renderers) :
                        names \subseteq DOMAIN doc.renderers[r].data_source.data
    /\ Len(view) = 1 =>
          LET v == view[1] IN
          \A k \in 1..Len(v.tooltip) :
              /\ v.tooltip[k].val[1] # "?"
              /\ v.tooltip[k].kind = "field" =>
                    v.tooltip[k].val = <<"v", ns.source.data[v.tooltip[k].name][v.index]>>

C10_Witness ==
    /\ Len(view) = 1
    /\ view[1].index = 5
    /\ <<"v", "E">> \in FieldShown(view[1].tooltip, "desc")

====
